---- MODULE Spec2Model ----
(***************************************************************************)
(* Model of src/app.py: the COVID-19 dashboard script.  One construction   *)
(* of app.layout (lines 270-314) evaluates, in Python's left-to-right      *)
(* order, plotData, plotPrediction (twice each), generateLatestTable and   *)
(* generateNewsTable.  Every getData call re-reads its CSV from the        *)
(* network, so each call draws a fresh RawTable.  The locals of a call     *)
(* (df, ddf, the figure being built) live until the call returns; the      *)
(* layout keeps the ids of the children computed so far.                   *)
(*                                                                         *)
(* pandas semantics are those of the release the script was written for    *)
(* (early 2020): groupby(...).sum() keeps the numeric columns, and         *)
(* DataFrame.sum(axis=1) over a frame holding datetime and integer columns *)
(* sums the numeric columns only.                                          *)
(***************************************************************************)
EXTENDS Integers, Sequences, FiniteSets, TLC

\* ---------------------------------------------------------------- bounds
MaxRows == 2
NDates == 2
MaxArticles == 11

\* ------------------------------------------------------ program constants
N == 7
NewsMax == 10

Counts == {0, 1}
Coords == {1}
MainlandChina == "Mainland China"
Regions == {MainlandChina, "Italy"}
Dates == 1..NDates

urlConfirmed == "time_series_19-covid-Confirmed.csv"
urlRecovered == "time_series_19-covid-Recovered.csv"
urlDeceased == "time_series_19-covid-Deaths.csv"

\* A CSV row: Country/Region, Lat, Long and one cell per date column.
Row == [region : Regions, Lat : Coords, Long : Coords, cells : [Dates -> Counts]]
RawTables == UNION {[1..n -> Row] : n \in 0..MaxRows}

RECURSIVE SumOver(_, _)
SumOver(S, f) ==
  IF S = {} THEN 0
  ELSE LET x == CHOOSE x \in S : TRUE IN f[x] + SumOver(S \ {x}, f)

\* ---------------------------------------------------------------- getData
\* df.groupby(["Country/Region"]).sum(): one row per distinct region, every
\* numeric column summed over the rows carrying that region.
GroupBySum(t) ==
  LET keys == {t[i].region : i \in DOMAIN t}
      idx(r) == {i \in DOMAIN t : t[i].region = r}
  IN [r \in keys |->
        [Lat   |-> SumOver(idx(r), [i \in idx(r) |-> t[i].Lat]),
         Long  |-> SumOver(idx(r), [i \in idx(r) |-> t[i].Long]),
         cells |-> [d \in Dates |-> SumOver(idx(r), [i \in idx(r) |-> t[i].cells[d]])]]]

\* df.drop(['Lat', 'Long'], axis=1): only the date columns remain.
DropLatLong(g) == [r \in DOMAIN g |-> g[r].cells]

\* df.T: dates become the index, regions the columns.
Transpose(g) == [d \in Dates |-> [r \in DOMAIN g |-> g[r][d]]]

\* df.sum(axis=1) after 'ds' and 'index' were added: the datetime columns are
\* left out, the region columns are summed.
RowSum(cols) == SumOver(DOMAIN cols, cols)

\* Variant of getData that forgets to subtract the distinguished region.
getDataNoSubtract(t) ==
  LET g == Transpose(DropLatLong(GroupBySum(t)))
  IN IF \A d \in Dates : MainlandChina \in DOMAIN g[d]
     THEN [status |-> "ok",
           rows |-> [d \in Dates |->
                      [ds |-> d, mc |-> g[d][MainlandChina], outside |-> RowSum(g[d])]]]
     ELSE [status |-> "KeyError", rows |-> <<>>]

getData(t) ==
  LET g == Transpose(DropLatLong(GroupBySum(t)))
  IN IF \A d \in Dates : MainlandChina \in DOMAIN g[d]
     THEN [status |-> "ok",
           rows |-> [d \in Dates |->
                      [ds |-> d,
                       mc |-> g[d][MainlandChina],
                       outside |-> RowSum(g[d]) - g[d][MainlandChina]]]]
     ELSE [status |-> "KeyError", rows |-> <<>>]

\* --------------------------------------------------------------- getTotal
\* Latest row: 'Mainland China' + 'Outside Mainland China'.
getTotal(df) == df.rows[NDates].mc + df.rows[NDates].outside

\* ---------------------------------------------------- generatePredictions
\* The sampler (PMProphet) is an external capability whose code is not part
\* of the script; its result is modelled from the call at lines 87-91 and the
\* forecast record of the specification: a fit either raises or yields one
\* growth curve of a small family, and predict(N, include_history=True)
\* returns one row per historical date followed by N future days.
Levels == {0, 1}
FitOutcomes ==
  {[ok |-> FALSE, level |-> 0]} \cup {[ok |-> TRUE, level |-> l] : l \in Levels}

ForecastRow(d, level) ==
  [ds |-> d, y_hat |-> level + d, y_low |-> level + d - 1, y_high |-> level + d + 1]

generatePredictions(ddf, fit) ==
  IF ~fit.ok
  THEN [status |-> "ForecastUnavailable", rows |-> <<>>]
  ELSE [status |-> "ok",
        rows |-> [i \in 1..(Len(ddf) + N) |->
                    IF i <= Len(ddf)
                    THEN ForecastRow(ddf[i].ds, fit.level)
                    ELSE ForecastRow(ddf[Len(ddf)].ds + (i - Len(ddf)), fit.level)]]

\* ---------------------------------------------------------- plotPrediction
\* np.log on a count: ln(c) for c > 0, -inf (a RuntimeWarning, no exception)
\* for c = 0, nan for c < 0.  Kept symbolic: ln(c) is not c.
Log(c) ==
  IF c > 0 THEN [kind |-> "ln", of |-> c]
  ELSE IF c = 0 THEN [kind |-> "-inf", of |-> 0]
  ELSE [kind |-> "nan", of |-> c]

CohortCount(row, mainland_china) == IF mainland_china THEN row.mc ELSE row.outside

\* df['y'] = np.log(df[<cohort>]); ddf = df[['ds','y']]
LogSeries(df, mainland_china) ==
  [d \in Dates |-> [ds |-> df.rows[d].ds, y |-> Log(CohortCount(df.rows[d], mainland_china))]]

Scatter(xs, ys, name) == [x |-> xs, y |-> ys, name |-> name]

\* Variant of PredictionFigure that merges on the date: a forecast row whose
\* date is an observed date is dropped from the forecast traces.
PredictionFigureMerged(obs, ddf, mainland_china) ==
  LET future(r) == \A i \in DOMAIN obs : obs[i].ds # r.ds
      kept == SelectSeq(ddf, future)
  IN [kind |-> "prediction",
      title |-> IF mainland_china THEN "Forecast (Mainland China)"
                ELSE "Forecast (Outside of Mainland China)",
      data |-> << Scatter([i \in DOMAIN obs |-> obs[i].ds],
                          [i \in DOMAIN obs |-> obs[i].y], "Log of Confirmed Cases"),
                  Scatter([i \in DOMAIN kept |-> kept[i].ds],
                          [i \in DOMAIN kept |-> kept[i].y_hat], "Log of Predicted Cases"),
                  Scatter([i \in DOMAIN kept |-> kept[i].ds],
                          [i \in DOMAIN kept |-> kept[i].y_high], "Log of Predicted High"),
                  Scatter([i \in DOMAIN kept |-> kept[i].ds],
                          [i \in DOMAIN kept |-> kept[i].y_low], "Log of Predicted Low") >>]

\* Lines 215-248: four traces, the observed one from df, three from ddf.
PredictionFigure(obs, ddf, mainland_china) ==
  [kind |-> "prediction",
   title |-> IF mainland_china THEN "Forecast (Mainland China)"
             ELSE "Forecast (Outside of Mainland China)",
   data |-> << Scatter([i \in DOMAIN obs |-> obs[i].ds],
                       [i \in DOMAIN obs |-> obs[i].y], "Log of Confirmed Cases"),
               Scatter([i \in DOMAIN ddf |-> ddf[i].ds],
                       [i \in DOMAIN ddf |-> ddf[i].y_hat], "Log of Predicted Cases"),
               Scatter([i \in DOMAIN ddf |-> ddf[i].ds],
                       [i \in DOMAIN ddf |-> ddf[i].y_high], "Log of Predicted High"),
               Scatter([i \in DOMAIN ddf |-> ddf[i].ds],
                       [i \in DOMAIN ddf |-> ddf[i].y_low], "Log of Predicted Low") >>]

\* ---------------------------------------------------------------- plotData
DataFigure(df, mainland_china) ==
  [kind |-> "data",
   title |-> IF mainland_china THEN "Confirmed Cases in Mainland China"
             ELSE "Confirmed Cases Outside of Mainland China",
   data |-> << Scatter([d \in Dates |-> df.rows[d].ds],
                       [d \in Dates |-> CohortCount(df.rows[d], mainland_china)],
                       "Confirmed Cases") >>]

\* ------------------------------------------------------ generateLatestTable
\* round(100*rec/(rec+dec), 2) on numpy integers.  The division is a float64
\* division: 0/0 is nan and x/0 is inf or -inf (RuntimeWarning, no exception);
\* otherwise the quotient x is the double nearest to 100*rec/(rec+dec), and
\* numpy's scalar round(x, 2) is rint(x * 100.0) / 100.0: a float64 product,
\* then round-half-to-even to an integer number of hundredths.
Abs(x) == IF x < 0 THEN 0 - x ELSE x

\* p with 2^p <= n/d < 2^(p+1), for n, d > 0: the binary exponent of the quotient.
RECURSIVE FloorLog2(_, _)
FloorLog2(n, d) ==
  IF n < d THEN FloorLog2(2 * n, d) - 1
  ELSE IF n \div 2 >= d THEN FloorLog2(n \div 2, d) + 1
  ELSE 0

\* (n * 2^e) mod m.
RECURSIVE MulPow2Mod(_, _, _)
MulPow2Mod(n, e, m) ==
  IF e = 0 THEN n % m ELSE MulPow2Mod((2 * (n % m)) % m, e - 1, m)

\* Where the double nearest to n/d (n, d > 0) lies relative to n/d: -1 below,
\* 0 equal, 1 above.  The double keeps 53 significant bits, rounding the
\* 53-bit mantissa half to even.
DoubleSide(n, d) ==
  LET e == 52 - FloorLog2(n, d)
      rem == MulPow2Mod(n, e, d)
      floorOdd == MulPow2Mod(n, e, 2 * d) >= d
  IN IF rem = 0 THEN 0
     ELSE IF 2 * rem < d THEN 0 - 1
     ELSE IF 2 * rem > d THEN 1
     ELSE IF floorOdd THEN 1 ELSE 0 - 1

\* |x - n/d| * 2^e * d for the double x nearest to n/d, where 2^e scales the
\* quotient to a 53-bit mantissa: the rounding error of the division in
\* d-ths of a unit in the last place (at most d/2).
DoubleError(n, d) ==
  LET rem == MulPow2Mod(n, 52 - FloorLog2(n, d), d)
  IN IF 2 * rem <= d THEN rem ELSE d - rem

RECURSIVE Pow2(_)
Pow2(i) == IF i = 0 THEN 1 ELSE 2 * Pow2(i - 1)

\* On a decimal tie 100*n/d = k + 1/2: does the float64 product x * 100.0
\* round to exactly k + 1/2?  It does when the error carried over from the
\* division, 100 * |x - n/d|, is at most half the spacing of the doubles at
\* k + 1/2 on the side of x (k + 1/2 has an even mantissa, so a halfway
\* product rounds to it); the spacing below 1/2 is half the spacing above.
ProductIsTie(n, d, k, side) ==
  LET shift == FloorLog2(2 * k + 1, 2) - FloorLog2(n, d) - 1
      half == IF k = 0 /\ side < 0 THEN Pow2(shift - 1) ELSE Pow2(shift)
  IN 100 * DoubleError(n, d) <= half * d

\* |round(100*num/den, 2)| in hundredths, for num # 0 and den # 0, with
\* n = 100*|num| and d = |den|.  Off a decimal tie the product rounds as the
\* exact quotient does.  On a tie either the product is exactly k + 1/2 and
\* rint goes half to even, or it lies on the side of the quotient double.
RoundAbs(n, d) ==
  LET k == (100 * n) \div d
      r == (100 * n) % d
      side == DoubleSide(n, d)
  IN IF 2 * r > d THEN k + 1
     ELSE IF 2 * r < d THEN k
     ELSE IF ProductIsTie(n, d, k, side) THEN (IF k % 2 = 0 THEN k ELSE k + 1)
     ELSE IF side > 0 THEN k + 1
     ELSE k

\* round(100*num/den, 2) in signed hundredths, den # 0.
Round2(num, den) ==
  IF num = 0 THEN 0
  ELSE LET h == RoundAbs(100 * Abs(num), Abs(den))
       IN IF (num < 0) = (den < 0) THEN h ELSE 0 - h

\* Variant of RecoveryRate on Python integers: division by zero raises.
RecoveryRatePyInt(rec, dec) ==
  IF rec + dec = 0
  THEN [kind |-> "ZeroDivisionError", hundredths |-> 0]
  ELSE [kind |-> "num", hundredths |-> Round2(rec, rec + dec)]

\* The value whose str() fills the Recovery Rate cell: nan, inf, -inf, -0.0
\* (a negative quotient that rounds to zero, or 0 over a negative sum) or a
\* number of hundredths.
RecoveryRate(rec, dec) ==
  IF rec + dec = 0
  THEN IF rec = 0 THEN [kind |-> "nan", hundredths |-> 0]
       ELSE IF rec > 0 THEN [kind |-> "inf", hundredths |-> 0]
       ELSE [kind |-> "-inf", hundredths |-> 0]
  ELSE LET h == Round2(rec, rec + dec)
           negative == IF rec = 0 THEN rec + dec < 0 ELSE (rec < 0) # (rec + dec < 0)
       IN IF h = 0 /\ negative THEN [kind |-> "-0.0", hundredths |-> 0]
          ELSE [kind |-> "num", hundredths |-> h]

Str(n) == [str |-> n]

LatestTable(con, rec, dec) ==
  [status |-> "ok", Confirmed |-> Str(con), Recovered |-> Str(rec),
   Deceased |-> Str(dec), RecoveryRate |-> Str(RecoveryRate(rec, dec))]

\* ------------------------------------------------------------------ getNews
\* resp is the outcome of the request: an error (request or json() raised) or
\* the number of articles returned.  An empty article list has no 'title'
\* column, so df[['title','url']] raises inside the try as well.
Responses ==
  {[ok |-> FALSE, articles |-> 0]} \cup {[ok |-> TRUE, articles |-> k] : k \in 0..MaxArticles}

getNews(resp) ==
  IF ~resp.ok THEN [none |-> TRUE, len |-> 0]
  ELSE IF resp.articles = 0 THEN [none |-> TRUE, len |-> 0]
  ELSE [none |-> FALSE, len |-> resp.articles]

Min(a, b) == IF a < b THEN a ELSE b

\* generateNewsTable: len(df) on None raises TypeError; otherwise one row per
\* article up to max.
generateNewsTable(newsdf) ==
  IF newsdf.none THEN [status |-> "TypeError", rows |-> 0]
  ELSE [status |-> "ok", rows |-> Min(newsdf.len, NewsMax)]

\* ------------------------------------------------------------------- state
VARIABLES
  pc,        \* next call of the layout expression to evaluate
  frame,     \* TRUE while the locals of the latest call are still alive
  raw,       \* local of getData: the RawTable returned by read_csv
  df,        \* local df: result of the getData call
  engineIn,  \* local ddf handed to generatePredictions
  forecast,  \* local ddf returned by generatePredictions
  fig,       \* figure about to be returned by plotData / plotPrediction
  totals,    \* locals con, rec, dec of generateLatestTable
  latest,    \* table built by generateLatestTable
  news,      \* result of getNews
  events,    \* network reads and forecast fits, in the order performed
  rendered,  \* ids of the children whose value has been computed
  layout,    \* app.layout: assigned only when the whole expression evaluated
  exc        \* exception that ended the evaluation

vars == <<pc, frame, raw, df, engineIn, forecast, fig, totals, latest, news,
          events, rendered, layout, exc>>

NoDf == [status |-> "none", rows |-> <<>>]
NoForecast == [status |-> "none", rows |-> <<>>]
NoFig == [kind |-> "none", title |-> "", data |-> <<>>]
NoLatest == [status |-> "none"]
NoNews == [none |-> TRUE, len |-> 0]
NoLayout == [assigned |-> FALSE, children |-> {}, newsRows |-> 0]

Fetch(url) == [op |-> "fetch", arg |-> url]
Fit(cohort) == [op |-> "fit", arg |-> cohort]

CohortName(mainland_china) == IF mainland_china THEN "china" ELSE "outside"

Init ==
  /\ pc = "plotData_china"
  /\ frame = FALSE
  /\ raw = <<>>
  /\ df = NoDf
  /\ engineIn = <<>>
  /\ forecast = NoForecast
  /\ fig = NoFig
  /\ totals = [con |-> 0, rec |-> 0, dec |-> 0]
  /\ latest = NoLatest
  /\ news = NoNews
  /\ events = <<>>
  /\ rendered = {}
  /\ layout = NoLayout
  /\ exc = "none"

\* An uncaught exception ends the module-level evaluation: app.layout is
\* never assigned and the server never starts.
Raise(e) ==
  /\ pc' = "aborted"
  /\ exc' = e
  /\ UNCHANGED <<rendered, layout>>

\* pd.read_csv(url) raises (network or parse failure) inside getData.
ReadCsvFails(url) ==
  /\ events' = Append(events, Fetch(url))
  /\ raw' = <<>>
  /\ df' = [status |-> "SourceUnavailable", rows |-> <<>>]
  /\ Raise("SourceUnavailable")

\* Lines 178-200.
plotData(mainland_china, here, next, id) ==
  /\ pc = here
  /\ ~frame
  /\ frame' = TRUE
  /\ \/ /\ ReadCsvFails(urlConfirmed)
        /\ UNCHANGED fig
     \/ \E t \in RawTables :
          LET r == getData(t) IN
            /\ events' = Append(events, Fetch(urlConfirmed))
            /\ raw' = t
            /\ df' = r
            /\ IF r.status = "ok"
               THEN /\ fig' = DataFigure(r, mainland_china)
                    /\ rendered' = rendered \cup {id}
                    /\ pc' = next
                    /\ UNCHANGED <<layout, exc>>
               ELSE /\ Raise(r.status)
                    /\ UNCHANGED fig
  /\ UNCHANGED <<engineIn, forecast, totals, latest, news>>

\* Lines 203-248.
plotPrediction(mainland_china, here, next, id) ==
  /\ pc = here
  /\ ~frame
  /\ frame' = TRUE
  /\ \/ /\ ReadCsvFails(urlConfirmed)
        /\ UNCHANGED <<engineIn, forecast, fig>>
     \/ \E t \in RawTables :
          LET r == getData(t) IN
            /\ raw' = t
            /\ df' = r
            /\ IF r.status # "ok"
               THEN /\ events' = Append(events, Fetch(urlConfirmed))
                    /\ Raise(r.status)
                    /\ UNCHANGED <<engineIn, forecast, fig>>
               ELSE \E fit \in FitOutcomes :
                      LET obs == LogSeries(r, mainland_china)
                          ddf == generatePredictions(obs, fit)
                      IN /\ events' = events \o <<Fetch(urlConfirmed),
                                                   Fit(CohortName(mainland_china))>>
                         /\ engineIn' = obs
                         /\ forecast' = ddf
                         /\ IF ddf.status = "ok"
                            THEN /\ fig' = PredictionFigure(obs, ddf.rows, mainland_china)
                                 /\ rendered' = rendered \cup {id}
                                 /\ pc' = next
                                 /\ UNCHANGED <<layout, exc>>
                            ELSE /\ Raise(ddf.status)
                                 /\ UNCHANGED fig
  /\ UNCHANGED <<totals, latest, news>>

PlotDataChina ==
  plotData(TRUE, "plotData_china", "plotPrediction_china", "my-graph_china")
PlotPredictionChina ==
  plotPrediction(TRUE, "plotPrediction_china", "plotData_outside", "my-graph_predict_china")
PlotDataOutside ==
  plotData(FALSE, "plotData_outside", "plotPrediction_outside", "my-graph_outside")
PlotPredictionOutside ==
  plotPrediction(FALSE, "plotPrediction_outside", "latest_con",
                 "my-graph_predict_outside_china")

\* One getTotal(url) call of generateLatestTable (lines 159-161); the call on
\* urlDeceased is followed by the construction of the table (lines 162-175).
GetTotalStep(url, field, here, next) ==
  /\ pc = here
  /\ ~frame
  /\ frame' = TRUE
  /\ \/ /\ ReadCsvFails(url)
        /\ UNCHANGED <<totals, latest>>
     \/ \E t \in RawTables :
          LET r == getData(t) IN
            /\ events' = Append(events, Fetch(url))
            /\ raw' = t
            /\ df' = r
            /\ IF r.status = "ok"
               THEN LET tot == [totals EXCEPT ![field] = getTotal(r)] IN
                      /\ totals' = tot
                      /\ pc' = next
                      /\ UNCHANGED <<layout, exc>>
                      /\ IF field = "dec"
                         THEN /\ latest' = LatestTable(tot.con, tot.rec, tot.dec)
                              /\ rendered' = rendered \cup {"table"}
                         ELSE UNCHANGED <<latest, rendered>>
               ELSE /\ Raise(r.status)
                    /\ UNCHANGED <<totals, latest>>
  /\ UNCHANGED <<engineIn, forecast, fig, news>>

GenerateLatestTableCon == GetTotalStep(urlConfirmed, "con", "latest_con", "latest_rec")
\* Variant of the second getTotal call reading the confirmed table again.
GenerateLatestTableRecConfirmed ==
  GetTotalStep(urlConfirmed, "rec", "latest_rec", "latest_dec")
GenerateLatestTableRec == GetTotalStep(urlRecovered, "rec", "latest_rec", "latest_dec")
GenerateLatestTableDec == GetTotalStep(urlDeceased, "dec", "latest_dec", "news")

\* The call returns: its frame is popped and the locals df, ddf and the
\* figure object cease to be visible to the rest of the evaluation.
Return ==
  /\ frame
  /\ pc \notin {"aborted", "done"}
  /\ frame' = FALSE
  /\ raw' = <<>>
  /\ df' = NoDf
  /\ engineIn' = <<>>
  /\ forecast' = NoForecast
  /\ fig' = NoFig
  /\ UNCHANGED <<pc, totals, latest, news, events, rendered, layout, exc>>

\* Lines 125-155, then the end of the layout expression (line 314).
GenerateNewsTable ==
  /\ pc = "news"
  /\ ~frame
  /\ \E resp \in Responses :
       LET d == getNews(resp)
           tbl == generateNewsTable(d)
       IN /\ news' = d
          /\ events' = Append(events, [op |-> "news", arg |-> "newsapi"])
          /\ IF tbl.status = "ok"
             THEN /\ rendered' = rendered \cup {"news"}
                  /\ layout' = [assigned |-> TRUE, children |-> rendered \cup {"news"},
                                newsRows |-> tbl.rows]
                  /\ pc' = "done"
                  /\ UNCHANGED exc
             ELSE Raise(tbl.status)
  /\ UNCHANGED <<frame, raw, df, engineIn, forecast, fig, totals, latest>>

Next ==
  \/ PlotDataChina
  \/ PlotPredictionChina
  \/ PlotDataOutside
  \/ PlotPredictionOutside
  \/ GenerateLatestTableCon
  \/ GenerateLatestTableRec
  \/ GenerateLatestTableDec
  \/ GenerateNewsTable
  \/ Return

Spec == Init /\ [][Next]_vars

\* ============================================================ properties
\* Reference sums taken straight from the CSV rows, by a fold over the rows.
RECURSIVE CellSum(_, _, _)
CellSum(t, keep, d) ==
  IF t = <<>> THEN 0
  ELSE (IF Head(t).region \in keep THEN Head(t).cells[d] ELSE 0)
       + CellSum(Tail(t), keep, d)

HasRegion(t, r) == \E i \in DOMAIN t : t[i].region = r
HasDuplicate(t) == \E i, j \in DOMAIN t : i < j /\ t[i].region = t[j].region

\* read_csv returned a table to the call whose locals are alive.
TableRead == frame /\ df.status \in {"ok", "KeyError"}

LastEvent == events[Len(events)]
\* The latest call is a plotPrediction that reached the engine for cohort c.
AfterPrediction(c) == frame /\ Len(events) > 0 /\ LastEvent = Fit(c)
Selected(c, d) == IF c = "china" THEN df.rows[d].mc ELSE df.rows[d].outside
Cohorts == {"china", "outside"}
CountEvents(e) == Cardinality({i \in DOMAIN events : events[i] = e})
NewsCalled == Len(events) > 0 /\ LastEvent.op = "news"

\* C1: for every table read that contains 'Mainland China', getData returns a
\* series in which, on every date, 'Mainland China' plus 'Outside Mainland
\* China' equals the sum of that date's cells over all rows of the table.
CohortConservation ==
  (TableRead /\ HasRegion(raw, MainlandChina)) =>
     /\ df.status = "ok"
     /\ \A d \in Dates : df.rows[d].mc + df.rows[d].outside = CellSum(raw, Regions, d)

ConservationWitness ==
  /\ TableRead /\ df.status = "ok"
  /\ HasRegion(raw, "Italy")
  /\ df.rows[1].mc = 1 /\ df.rows[1].outside = 1
  /\ df.rows[NDates].mc = 0 /\ df.rows[NDates].outside = 1

\* C2 (as claimed): when 'Mainland China' is absent from the table read,
\* getData raises nothing and returns distinguished count 0 and other count
\* equal to the grand total on every date.
AbsentRegionSoftFail ==
  (TableRead /\ ~HasRegion(raw, MainlandChina)) =>
     /\ df.status = "ok"
     /\ \A d \in Dates :
          df.rows[d].mc = 0 /\ df.rows[d].outside = CellSum(raw, Regions, d)

\* C3 (as claimed): when the fit raises, plotPrediction still returns a figure
\* with the observed series and an empty forecast portion, and the evaluation
\* of the layout goes on.
ForecastFailureIsAbsentForecast ==
  (frame /\ forecast.status = "ForecastUnavailable") =>
     /\ pc # "aborted"
     /\ fig.kind = "prediction"
     /\ fig.data[2].x = <<>>

\* C4 (as claimed): a failure of one forecast fit or of the news fetch leaves
\* the latest-totals table and both cohorts' data views in the layout.
LocalFailureIsolated ==
  ((frame /\ forecast.status = "ForecastUnavailable") \/ (NewsCalled /\ news.none)) =>
     /\ layout.assigned
     /\ {"table", "my-graph_china", "my-graph_outside"} \subseteq layout.children

\* C5 (as claimed): when getNews fails, generateNewsTable returns an empty
\* panel and raises nothing.
NewsFailureRecovered ==
  (NewsCalled /\ news.none) => (exc = "none" /\ "news" \in rendered)

\* C6 (as claimed): a zero count of the selected cohort yields a
\* NonPositiveValue error, and the engine is handed no value for that date.
ZeroCountIsDomainError ==
  \A c \in Cohorts : AfterPrediction(c) =>
     \A d \in Dates : Selected(c, d) = 0 =>
        /\ exc = "NonPositiveValue"
        /\ ~ \E i \in DOMAIN engineIn : engineIn[i].ds = df.rows[d].ds

\* C7: with latest recovered and deceased totals both 0, generateLatestTable
\* has one outcome: no exception, and the Recovery Rate cell is the nan
\* sentinel.
ZeroDenominatorOutcome ==
  (pc = "news" /\ totals.rec = 0 /\ totals.dec = 0) =>
     /\ exc = "none"
     /\ latest.status = "ok"
     /\ "table" \in rendered
     /\ latest.RecoveryRate.str.kind = "nan"

ZeroDenominatorWitness ==
  /\ pc = "news" /\ frame
  /\ totals.con = 2 /\ totals.rec = 0 /\ totals.dec = 0
  /\ latest.status = "ok"

\* C8 (as claimed): a completed refresh has read each source URL exactly once
\* and fitted each cohort exactly once.
OneFetchPerUrl ==
  pc = "done" =>
     /\ \A u \in {urlConfirmed, urlRecovered, urlDeceased} : CountEvents(Fetch(u)) = 1
     /\ \A c \in Cohorts : CountEvents(Fit(c)) = 1

RefreshSequence ==
  << Fetch(urlConfirmed),
     Fetch(urlConfirmed), Fit("china"),
     Fetch(urlConfirmed),
     Fetch(urlConfirmed), Fit("outside"),
     Fetch(urlConfirmed), Fetch(urlRecovered), Fetch(urlDeceased),
     [op |-> "news", arg |-> "newsapi"] >>

\* C8 (amended): the reads and fits of a refresh happen in one fixed order,
\* one read per getData call: the confirmed URL is read five times (two
\* plotData, two plotPrediction, one getTotal), the recovered and deceased
\* URLs once each, and each cohort is fitted exactly once.
OneFetchPerCall ==
  /\ Len(events) <= Len(RefreshSequence)
  /\ events = SubSeq(RefreshSequence, 1, Len(events))
  /\ pc = "done" =>
       /\ events = RefreshSequence
       /\ CountEvents(Fetch(urlConfirmed)) = 5
       /\ CountEvents(Fetch(urlRecovered)) = 1
       /\ CountEvents(Fetch(urlDeceased)) = 1
       /\ \A c \in Cohorts : CountEvents(Fit(c)) = 1

RefreshDoneWitness ==
  /\ pc = "done" /\ layout.assigned
  /\ Len(events) = 10

\* C9 (as claimed): every table read in which a region appears on several
\* rows is accepted by getData, and each date's count of a region is the sum
\* of that date's cells over all rows carrying the region (seen in 'Mainland
\* China' and in its complement).
DuplicateRowsTolerated ==
  (TableRead /\ HasDuplicate(raw)) =>
     /\ df.status = "ok"
     /\ \A d \in Dates :
          /\ df.rows[d].mc = CellSum(raw, {MainlandChina}, d)
          /\ df.rows[d].outside = CellSum(raw, Regions \ {MainlandChina}, d)

\* C10: in the figure built by plotPrediction the observed trace is the series
\* handed to the engine, unchanged, and every historical date also carries a
\* separate forecast point holding the engine's fitted value for that date.
MergeKeepsBoth ==
  (frame /\ fig.kind = "prediction") =>
     LET observed == fig.data[1]
         predicted == fig.data[2]
     IN /\ Len(observed.x) = NDates
        /\ \A i \in 1..NDates :
             /\ observed.x[i] = df.rows[i].ds
             /\ observed.x[i] = engineIn[i].ds
             /\ observed.y[i] = engineIn[i].y
             /\ \E j \in DOMAIN predicted.x :
                  /\ predicted.x[j] = observed.x[i]
                  /\ predicted.y[j] = forecast.rows[j].y_hat
                  /\ forecast.rows[j].ds = observed.x[i]
        /\ Len(predicted.x) = NDates + N

MergeWitness ==
  /\ frame /\ fig.kind = "prediction"
  /\ fig.data[1].x[NDates] = fig.data[2].x[NDates]
  /\ fig.data[1].y[NDates].kind = "ln"
  /\ Len(fig.data[2].x) > NDates

====
